---- MODULE Spec2Model ----
(***************************************************************************)
(* Model of the WebOsFHE contract (WebOsFHE.sol): the registry of          *)
(* encrypted processes, the request correlation table requestToProcessId,  *)
(* and the two decryption callbacks.  Every public function is one action; *)
(* a reverted transaction leaves the contract storage and the event log    *)
(* untouched and is visible only in lastCall, the record of the latest     *)
(* transaction and its outcome.                                            *)
(***************************************************************************)
EXTENDS Integers, Sequences, FiniteSets, Bags, TLC

\* ---- bounds of the model ----
WordBits == 4            \* width of the scaled-down uint256 word
MaxProcesses == 2        \* createEncryptedProcess calls explored
MaxRequests == 2         \* decryption requests the oracle accepts
MaxEvents == 4           \* number of events emitted
MaxResultType == 2       \* uint8 resultType arguments 0 .. MaxResultType

RECURSIVE Pow2(_)
Pow2(n) == IF n = 0 THEN 1 ELSE 2 * Pow2(n - 1)

UintMax == Pow2(WordBits) - 1
Uint == 0..UintMax

\* ---- inputs ----
\* process id arguments: 0 and every id a creation can assign
ProcessIds == 0..MaxProcesses
RequestIds == 0..MaxRequests
ResultTypes == 0..MaxResultType
\* ciphertext handles are opaque non-zero words; 0 is the uninitialized handle
CreateInputs == {<<1, 2, 3>>, <<2, 0, 1>>}
ResultInputs == {<<1, 2>>, <<0, 1>>}
Timestamps == {1700000000}
Proofs == {"signed", "forged"}

\* bytes payloads handed to a callback, by the ABI encoding they carry
EncodeStrings(items) == [kind |-> "string[]", items |-> items]
EncodeString(s) == [kind |-> "string", items |-> <<s>>]
EmptyBytes == [kind |-> "empty", items |-> <<>>]

Cleartexts ==
    { EncodeStrings(<<"print(1)", "mem0", "idle">>),
      EncodeStrings(<<"idle", "print(1)", "">>),
      EncodeStrings(<<"print(1)", "mem0">>),
      EncodeString("42") }

\* ---- storage defaults ----
ZeroEncrypted ==
    [id |-> 0, encryptedCode |-> 0, encryptedMemory |-> 0,
     encryptedState |-> 0, timestamp |-> 0]
ZeroDecrypted == [code |-> "", memory |-> "", state |-> "", isRevealed |-> FALSE]
ZeroResult == [encryptedOutput |-> 0, encryptedExecutionTime |-> 0]
NoOrigin == [fn |-> "none", processId |-> 0, resultType |-> 0]

VARIABLES
    processCount,          \* uint256 public processCount
    encryptedProcesses,    \* mapping(uint256 => EncryptedProcess)
    decryptedProcesses,    \* mapping(uint256 => DecryptedProcess)
    processResults,        \* mapping(uint256 => ProcessResult)
    requestToProcessId,    \* mapping(uint256 => uint256)
    events,                \* the events emitted so far, as a bag: their order
                           \* is the order of the steps that emit them
    counterRequest,        \* the oracle's next request id
    requestOrigin,         \* history: which function registered a request id
    consumed,              \* history: request ids a successful decryptProcess carried
    lastCall               \* the latest transaction and its outcome

stores ==
    <<processCount, encryptedProcesses, decryptedProcesses, processResults,
      requestToProcessId>>
vars ==
    <<processCount, encryptedProcesses, decryptedProcesses, processResults,
      requestToProcessId, events, counterRequest, requestOrigin, consumed,
      lastCall>>

\* processId is the processId argument of a call that succeeded (0 when the
\* call has none or reverted)
Call(op, processId, result) == [op |-> op, processId |-> processId, result |-> result]

\* emit: one more occurrence of the event in the log
Emit(event) == events (+) SetToBag({event})

Init ==
    /\ processCount = 0
    /\ encryptedProcesses = [k \in Uint |-> ZeroEncrypted]
    /\ decryptedProcesses = [k \in Uint |-> ZeroDecrypted]
    /\ processResults = [k \in Uint |-> ZeroResult]
    /\ requestToProcessId = [r \in RequestIds |-> 0]
    /\ events = EmptyBag
    /\ counterRequest = 1
    /\ requestOrigin = [r \in RequestIds |-> NoOrigin]
    /\ consumed = {}
    /\ lastCall = Call("constructor", 0, "ok")

\* ---- the encryption library, as the contract uses it ----
FHE_isInitialized(handle) == handle # 0
FHE_checkSignatures(requestId, cleartexts, proof) == proof = "signed"

\* abi.decode(cleartexts, (string[])): the array, or <<FALSE>> on a revert
AbiDecodeStrings(cleartexts) ==
    IF cleartexts.kind = "string[]" THEN <<TRUE, cleartexts.items>>
    ELSE <<FALSE, <<>>>>

\* abi.decode(cleartexts, (string)): a string[] payload still decodes, to
\* the bytes that follow its length word
AbiDecodeString(cleartexts) ==
    IF cleartexts.kind = "string" THEN <<TRUE, cleartexts.items[1]>>
    ELSE IF cleartexts.kind = "string[]" THEN <<TRUE, "\\0">>
    ELSE <<FALSE, "">>

\* ---- createEncryptedProcess ----
NextProcessId_Reuse(count) == IF count = 0 THEN 1 ELSE count
NextProcessId_NoIncrement(count) == count
NextProcessId(count) == count + 1

NewEncryptedProcess_Swapped(newId, encryptedCode, encryptedMemory, encryptedState, timestamp) ==
    [id |-> newId, encryptedCode |-> encryptedMemory,
     encryptedMemory |-> encryptedCode, encryptedState |-> encryptedState,
     timestamp |-> timestamp]
NewEncryptedProcess(newId, encryptedCode, encryptedMemory, encryptedState, timestamp) ==
    [id |-> newId, encryptedCode |-> encryptedCode,
     encryptedMemory |-> encryptedMemory, encryptedState |-> encryptedState,
     timestamp |-> timestamp]

createEncryptedProcess(encryptedCode, encryptedMemory, encryptedState, timestamp) ==
    /\ processCount < MaxProcesses
    /\ BagCardinality(events) < MaxEvents
    /\ LET newId == NextProcessId(processCount) IN
        /\ processCount' = newId
        /\ encryptedProcesses' =
              [encryptedProcesses EXCEPT ![newId] =
                  NewEncryptedProcess(newId, encryptedCode, encryptedMemory,
                                      encryptedState, timestamp)]
        /\ decryptedProcesses' = [decryptedProcesses EXCEPT ![newId] = ZeroDecrypted]
        /\ events' = Emit(<<"ProcessCreated", newId, timestamp>>)
        /\ lastCall' = Call("createEncryptedProcess", 0, "ok")
    /\ UNCHANGED <<processResults, requestToProcessId, counterRequest, requestOrigin, consumed>>

\* ---- requestProcessDecryption ----
\* FHE.requestDecryption: the oracle hands out the next request id
FHE_requestDecryption == counterRequest

ProcessRequestValue(processId) == processId

\* the key requestProcessDecryption and requestResultDecryption write under
RequestKey_Halved(reqId) == (reqId + 1) \div 2
RequestKey(reqId) == reqId

\* require(!decryptedProcesses[processId].isRevealed, "Already decrypted")
RequestAlreadyDecrypted_Never(processId) == FALSE
RequestAlreadyDecrypted(processId) == decryptedProcesses[processId].isRevealed

requestProcessDecryption(processId) ==
    IF RequestAlreadyDecrypted(processId)
    THEN /\ lastCall' = Call("requestProcessDecryption", 0, "Already decrypted")
         /\ UNCHANGED <<stores, events, counterRequest, requestOrigin, consumed>>
    ELSE /\ counterRequest <= MaxRequests
         /\ BagCardinality(events) < MaxEvents
         /\ LET reqId == FHE_requestDecryption IN
             /\ counterRequest' = counterRequest + 1
             /\ requestToProcessId' =
                   [requestToProcessId EXCEPT ![RequestKey(reqId)] =
                       ProcessRequestValue(processId)]
             /\ requestOrigin' =
                   [requestOrigin EXCEPT ![reqId] =
                       [fn |-> "requestProcessDecryption", processId |-> processId,
                        resultType |-> 0]]
             /\ events' = Emit(<<"DecryptionRequested", processId>>)
             /\ lastCall' = Call("requestProcessDecryption", processId, "ok")
         /\ UNCHANGED <<processCount, encryptedProcesses, decryptedProcesses,
                        processResults, consumed>>

\* ---- decryptProcess ----
ResolveProcessId_OffByOne(requestId) == requestToProcessId[requestId] + 1
ResolveProcessId(requestId) == requestToProcessId[requestId]

\* require(!dProcess.isRevealed, "Already decrypted")
AlreadyDecrypted_ByState(processId) == decryptedProcesses[processId].state # ""
AlreadyDecrypted_Never(processId) == FALSE
AlreadyDecrypted(processId) == decryptedProcesses[processId].isRevealed

\* require(processId != 0, "Invalid request")
InvalidRequest_Never(processId) == FALSE
InvalidRequest(processId) == processId = 0

\* FHE.checkSignatures(requestId, cleartexts, proof) in decryptProcess
SignaturesChecked_Inverted(requestId, cleartexts, proof) ==
    ~FHE_checkSignatures(requestId, cleartexts, proof)
SignaturesChecked_Skipped(requestId, cleartexts, proof) == TRUE
SignaturesChecked(requestId, cleartexts, proof) ==
    FHE_checkSignatures(requestId, cleartexts, proof)

Reveal_Partial(results) ==
    [code |-> results[1], memory |-> results[2], state |-> "",
     isRevealed |-> TRUE]
Reveal_Swapped(results) ==
    [code |-> results[1], memory |-> results[3], state |-> results[2],
     isRevealed |-> TRUE]
Reveal(results) ==
    [code |-> results[1], memory |-> results[2], state |-> results[3],
     isRevealed |-> TRUE]

\* the outcome of decryptProcess in the current state: "ok" or the revert
decryptProcessOutcome(requestId, cleartexts, proof) ==
    LET processId == ResolveProcessId(requestId)
        decoded == AbiDecodeStrings(cleartexts)
    IN  IF InvalidRequest(processId) THEN "Invalid request"
        ELSE IF AlreadyDecrypted(processId) THEN "Already decrypted"
        ELSE IF ~SignaturesChecked(requestId, cleartexts, proof)
             THEN "Invalid signature"
        ELSE IF ~decoded[1] THEN "abi.decode reverted"
        ELSE IF Len(decoded[2]) < 3 THEN "Panic(0x32)"
        ELSE "ok"

decryptProcess(requestId, cleartexts, proof) ==
    LET processId == ResolveProcessId(requestId)
        outcome == decryptProcessOutcome(requestId, cleartexts, proof)
    IN  /\ lastCall' = Call("decryptProcess", 0, outcome)
        /\ IF outcome = "ok"
           THEN /\ BagCardinality(events) < MaxEvents
                /\ decryptedProcesses' =
                      [decryptedProcesses EXCEPT ![processId] =
                          Reveal(AbiDecodeStrings(cleartexts)[2])]
                /\ events' = Emit(<<"ProcessDecrypted", processId>>)
                /\ consumed' = consumed \cup {requestId}
           ELSE UNCHANGED <<decryptedProcesses, events, consumed>>
        /\ UNCHANGED <<processCount, encryptedProcesses, processResults,
                       requestToProcessId, counterRequest, requestOrigin>>

\* ---- requestProcessExecution ----
ProcessExists_Always(processId) == TRUE
ProcessExists(processId) == encryptedProcesses[processId].id # 0

requestProcessExecution(processId) ==
    IF ~ProcessExists(processId)
    THEN /\ lastCall' = Call("requestProcessExecution", 0, "Process not found")
         /\ UNCHANGED <<stores, events, counterRequest, requestOrigin, consumed>>
    ELSE /\ BagCardinality(events) < MaxEvents
         /\ events' = Emit(<<"ExecutionRequested", processId>>)
         /\ lastCall' = Call("requestProcessExecution", processId, "ok")
         /\ UNCHANGED <<stores, counterRequest, requestOrigin, consumed>>

\* ---- submitExecutionResult ----
NewProcessResult_Swapped(encryptedOutput, encryptedExecutionTime) ==
    [encryptedOutput |-> encryptedExecutionTime,
     encryptedExecutionTime |-> encryptedOutput]
NewProcessResult(encryptedOutput, encryptedExecutionTime) ==
    [encryptedOutput |-> encryptedOutput,
     encryptedExecutionTime |-> encryptedExecutionTime]

submitExecutionResult(processId, encryptedOutput, encryptedExecutionTime) ==
    /\ BagCardinality(events) < MaxEvents
    /\ processResults' =
          [processResults EXCEPT ![processId] =
              NewProcessResult(encryptedOutput, encryptedExecutionTime)]
    /\ events' = Emit(<<"ExecutionCompleted", processId>>)
    /\ lastCall' = Call("submitExecutionResult", processId, "ok")
    /\ UNCHANGED <<processCount, encryptedProcesses, decryptedProcesses,
                   requestToProcessId, counterRequest, requestOrigin, consumed>>

\* ---- requestResultDecryption ----
hasExecutionResults_Always(processId) == TRUE
hasExecutionResults(processId) ==
    FHE_isInitialized(processResults[processId].encryptedOutput)

\* processId * 10 + resultType in checked arithmetic: the value, or
\* Overflow when the transaction panics
Overflow == -1
CompositeId_Unchecked(processId, resultType) ==
    (processId * 10 + resultType) % (UintMax + 1)
CompositeId(processId, resultType) ==
    LET product == processId * 10
        sum == product + resultType
    IN  IF product > UintMax \/ sum > UintMax THEN Overflow ELSE sum

\* the else branch of the resultType dispatch: revert("Invalid result type")
InvalidResultType_Never(resultType) == FALSE
InvalidResultType(resultType) == resultType # 0 /\ resultType # 1

requestResultDecryptionOutcome(processId, resultType) ==
    IF ~hasExecutionResults(processId) THEN "No results available"
    ELSE IF InvalidResultType(resultType) THEN "Invalid result type"
    ELSE IF CompositeId(processId, resultType) = Overflow THEN "Panic(0x11)"
    ELSE "ok"

requestResultDecryption(processId, resultType) ==
    LET outcome == requestResultDecryptionOutcome(processId, resultType) IN
    IF outcome # "ok"
    THEN /\ lastCall' = Call("requestResultDecryption", 0, outcome)
         /\ UNCHANGED <<stores, events, counterRequest, requestOrigin, consumed>>
    ELSE /\ counterRequest <= MaxRequests
         /\ LET reqId == FHE_requestDecryption IN
             /\ counterRequest' = counterRequest + 1
             /\ requestToProcessId' =
                   [requestToProcessId EXCEPT ![RequestKey(reqId)] =
                       CompositeId(processId, resultType)]
             /\ requestOrigin' =
                   [requestOrigin EXCEPT ![reqId] =
                       [fn |-> "requestResultDecryption", processId |-> processId,
                        resultType |-> resultType]]
             /\ lastCall' = Call("requestResultDecryption", processId, "ok")
         /\ UNCHANGED <<processCount, encryptedProcesses, decryptedProcesses,
                        processResults, events, consumed>>

\* ---- decryptExecutionResult ----
DecodeProcessId(compositeId) == compositeId \div 10
DecodeResultType(compositeId) == compositeId % 10

decryptExecutionResultOutcome(requestId, cleartexts, proof) ==
    IF ~FHE_checkSignatures(requestId, cleartexts, proof) THEN "Invalid signature"
    ELSE IF ~AbiDecodeString(cleartexts)[1] THEN "abi.decode reverted"
    ELSE "ok"

\* the handler decodes processId, resultType and result into locals and
\* stores none of them
decryptExecutionResult(requestId, cleartexts, proof) ==
    LET compositeId == requestToProcessId[requestId]
        processId == DecodeProcessId(compositeId)
        resultType == DecodeResultType(compositeId)
        outcome == decryptExecutionResultOutcome(requestId, cleartexts, proof)
    IN  /\ lastCall' = Call("decryptExecutionResult", 0, outcome)
        /\ UNCHANGED <<stores, events, counterRequest, requestOrigin, consumed>>

\* ---- views ----
getDecryptedProcess(processId) ==
    LET p == decryptedProcesses[processId] IN
    <<p.code, p.memory, p.state, p.isRevealed>>

Next ==
    \/ \E h \in CreateInputs, t \in Timestamps :
          createEncryptedProcess(h[1], h[2], h[3], t)
    \/ \E p \in ProcessIds : requestProcessDecryption(p)
    \/ \E r \in RequestIds, c \in Cleartexts, pr \in Proofs : decryptProcess(r, c, pr)
    \/ \E p \in ProcessIds : requestProcessExecution(p)
    \/ \E p \in ProcessIds, h \in ResultInputs :
          submitExecutionResult(p, h[1], h[2])
    \/ \E p \in ProcessIds, rt \in ResultTypes : requestResultDecryption(p, rt)
    \/ \E r \in RequestIds, c \in Cleartexts, pr \in Proofs :
          decryptExecutionResult(r, c, pr)

Spec == Init /\ [][Next]_vars

\* ---- the two-phase protocol under a fair oracle ----
\* a created, unrevealed process with a request registered for it by
\* requestProcessDecryption
Pending(processId) ==
    /\ processId \in 1..processCount
    /\ ~decryptedProcesses[processId].isRevealed
    /\ \E r \in RequestIds :
          /\ requestOrigin[r].fn = "requestProcessDecryption"
          /\ requestOrigin[r].processId = processId

PendingCount == Cardinality({p \in ProcessIds : Pending(p)})

\* the bounded event log keeps one place for the ProcessDecrypted event of
\* every pending process
RoomForCallbacks == BagCardinality(events) + PendingCount <= MaxEvents

\* the oracle's callback for a registered request of a created process: a
\* signed proof and a payload of three strings
OracleDelivers(requestId) ==
    /\ requestOrigin[requestId].fn = "requestProcessDecryption"
    /\ requestOrigin[requestId].processId \in 1..processCount
    /\ \E c \in Cleartexts :
          /\ c.kind = "string[]"
          /\ Len(c.items) = 3
          /\ decryptProcess(requestId, c, "signed")

LiveNext ==
    \/ \E h \in CreateInputs, t \in Timestamps :
          createEncryptedProcess(h[1], h[2], h[3], t) /\ RoomForCallbacks'
    \/ \E p \in ProcessIds : requestProcessDecryption(p) /\ RoomForCallbacks'
    \/ \E r \in RequestIds, c \in Cleartexts, pr \in Proofs :
          decryptProcess(r, c, pr) /\ RoomForCallbacks'
    \/ \E p \in ProcessIds : requestProcessExecution(p) /\ RoomForCallbacks'
    \/ \E p \in ProcessIds, h \in ResultInputs :
          submitExecutionResult(p, h[1], h[2]) /\ RoomForCallbacks'
    \/ \E p \in ProcessIds, rt \in ResultTypes :
          requestResultDecryption(p, rt) /\ RoomForCallbacks'
    \/ \E r \in RequestIds, c \in Cleartexts, pr \in Proofs :
          decryptExecutionResult(r, c, pr) /\ RoomForCallbacks'

LiveSpec ==
    /\ Init
    /\ [][LiveNext]_vars
    /\ \A r \in RequestIds : WF_vars(OracleDelivers(r) /\ RoomForCallbacks')

\* ---- properties ----
Empty == <<"", "", "", FALSE>>
Emitted(event) == BagIn(event, events)
RegisteredBy(requestId, fn) == requestOrigin[requestId].fn = fn

\* C1: a process becomes revealed only in a decryptProcess call whose
\* requestId was registered by requestProcessDecryption for that process
C1_NoMisattribution ==
    [][\A p \in Uint :
          (~decryptedProcesses[p].isRevealed /\ decryptedProcesses'[p].isRevealed)
          => \E r \in RequestIds, c \in Cleartexts :
                /\ RegisteredBy(r, "requestProcessDecryption")
                /\ requestOrigin[r].processId = p
                /\ decryptProcess(r, c, "signed")]_vars

\* C2: decryptProcess on a requestId that resolves to an already revealed
\* process fails with "Already decrypted" and leaves that process's
\* DecryptedProcess as it was
C2_DuplicateCallbackRejected ==
    [][\A r \in RequestIds, c \in Cleartexts, pr \in Proofs :
          ( /\ requestToProcessId[r] # 0
            /\ decryptedProcesses[requestToProcessId[r]].isRevealed )
          => \/ /\ lastCall'.result = "Already decrypted"
                /\ decryptedProcesses' = decryptedProcesses
                /\ events' = events
             \/ ~decryptProcess(r, c, pr)]_vars

C2_Witness ==
    /\ lastCall.op = "decryptProcess"
    /\ lastCall.result = "Already decrypted"
    /\ \E r \in consumed : decryptedProcesses[requestToProcessId[r]].isRevealed

\* C3: once a process is revealed, its DecryptedProcess never changes again
C3_RevealedIsTerminal ==
    [][\A p \in Uint :
          decryptedProcesses[p].isRevealed
          => decryptedProcesses'[p] = decryptedProcesses[p]]_vars

\* C4: a callback whose proof fails verification changes no store and emits
\* no event
C4_ForgedProofIsNoOp ==
    [][(stores' # stores \/ events' # events)
          => \A r \in RequestIds, c \in Cleartexts :
                ~decryptProcess(r, c, "forged") /\ ~decryptExecutionResult(r, c, "forged")]_vars

C4_Witness ==
    /\ lastCall.op = "decryptProcess"
    /\ lastCall.result = "Invalid signature"
    /\ \E r \in RequestIds : RegisteredBy(r, "requestProcessDecryption")

\* C5: the ProcessCreated events carry the ids 1..processCount, each once,
\* and every creation takes the id one above the previous count
CreatedEvents == {e \in BagToSet(events) : e[1] = "ProcessCreated"}

C5_IdsDense ==
    /\ \A e \in CreatedEvents : e[2] \in 1..processCount /\ CopiesIn(e, events) = 1
    /\ \A k \in 1..processCount :
          /\ Cardinality({e \in CreatedEvents : e[2] = k}) = 1
          /\ encryptedProcesses[k].id = k

C5_IdsStep ==
    \A h \in CreateInputs, t \in Timestamps :
       createEncryptedProcess(h[1], h[2], h[3], t)
       => /\ processCount' = processCount + 1
          /\ events' = events (+) SetToBag({<<"ProcessCreated", processCount + 1, t>>})

C5_SequentialIds == []C5_IdsDense /\ [][C5_IdsStep]_vars

C5_Witness ==
    /\ processCount = 2
    /\ lastCall.op = "requestProcessExecution"
    /\ lastCall.result = "Process not found"

\* C6: a signed callback carrying a triple (c, m, s) for a request that
\* requestProcessDecryption registered for a created, unrevealed process p
\* leaves getDecryptedProcess(p) = (c, m, s, true)
C6_RoundTrip ==
    [][\A r \in RequestIds, c \in Cleartexts :
          ( /\ c.kind = "string[]" /\ Len(c.items) = 3
            /\ RegisteredBy(r, "requestProcessDecryption")
            /\ requestOrigin[r].processId \in 1..processCount
            /\ ~decryptedProcesses[requestOrigin[r].processId].isRevealed )
          => \/ getDecryptedProcess(requestOrigin[r].processId)' =
                   <<c.items[1], c.items[2], c.items[3], TRUE>>
             \/ ~decryptProcess(r, c, "signed")]_vars

C6_Witness ==
    /\ lastCall.op = "decryptProcess"
    /\ lastCall.result = "ok"
    /\ \E r \in consumed :
          /\ RegisteredBy(r, "requestProcessDecryption")
          /\ requestOrigin[r].processId \in 1..processCount
          /\ getDecryptedProcess(requestOrigin[r].processId)
                = <<"idle", "print(1)", "", TRUE>>

\* C7: getDecryptedProcess is empty for every id that no creation assigned
C7_UnassignedIdsEmpty ==
    \A id \in Uint :
       (id = 0 \/ id > processCount) => getDecryptedProcess(id) = Empty

\* C8 as stated: a requestId that was never registered, or that an earlier
\* successful callback consumed, fails with "Invalid request" and changes
\* nothing
C8_UnknownOrConsumedIsNotFound ==
    [][\A r \in RequestIds, c \in Cleartexts, pr \in Proofs :
          (RegisteredBy(r, "none") \/ r \in consumed)
          => \/ lastCall'.result = "Invalid request" /\ UNCHANGED <<stores, events>>
             \/ ~decryptProcess(r, c, pr)]_vars

\* C8 amended: a requestId that was never registered fails with "Invalid
\* request"; a consumed one whose process is still revealed fails with
\* "Already decrypted"; neither changes anything
C8_UnknownIsNotFound ==
    [][\A r \in RequestIds, c \in Cleartexts, pr \in Proofs :
          /\ RegisteredBy(r, "none")
             => \/ lastCall'.result = "Invalid request" /\ UNCHANGED <<stores, events>>
                \/ ~decryptProcess(r, c, pr)
          /\ (r \in consumed /\ decryptedProcesses[requestToProcessId[r]].isRevealed)
             => \/ lastCall'.result = "Already decrypted" /\ UNCHANGED <<stores, events>>
                \/ ~decryptProcess(r, c, pr)]_vars

C8_Witness ==
    /\ lastCall.op = "decryptProcess"
    /\ lastCall.result = "Invalid request"
    /\ consumed # {}

\* C9 as stated: requestResultDecryption fails with "No results available"
\* while nothing was submitted for the id, and succeeds right after any
\* submitExecutionResult for the id
NothingSubmitted(processId) == ~Emitted(<<"ExecutionCompleted", processId>>)
JustSubmitted(processId) ==
    lastCall.op = "submitExecutionResult" /\ lastCall.processId = processId

C9_SucceedsAfterAnySubmit ==
    [][\A p \in ProcessIds, rt \in {0, 1} :
          \/ /\ NothingSubmitted(p) => lastCall'.result = "No results available"
             /\ JustSubmitted(p) => lastCall'.result = "ok"
          \/ ~requestResultDecryption(p, rt)]_vars

\* C9 amended: it succeeds right after a submission whose output handle is
\* initialized, for an id whose composite key fits the word; after a
\* submission with an uninitialized output handle it still fails with
\* "No results available", and a composite key that overflows panics
C9_SucceedsAfterInitializedSubmit ==
    [][\A p \in ProcessIds, rt \in {0, 1} :
          \/ /\ NothingSubmitted(p) => lastCall'.result = "No results available"
             /\ JustSubmitted(p) =>
                   lastCall'.result =
                      IF processResults[p].encryptedOutput = 0
                      THEN "No results available"
                      ELSE IF p * 10 + rt > UintMax THEN "Panic(0x11)"
                      ELSE "ok"
          \/ ~requestResultDecryption(p, rt)]_vars

C9_Witness ==
    /\ lastCall.op = "requestResultDecryption"
    /\ lastCall.result = "ok"
    /\ lastCall.processId \in 1..processCount

\* C10: every entry requestResultDecryption(p, rt) wrote holds exactly
\* p * 10 + rt and decodes by /10 and %10 back to (p, rt)
C10_CompositeKeyRoundTrip ==
    \A r \in RequestIds :
       RegisteredBy(r, "requestResultDecryption")
       => /\ requestToProcessId[r] =
                requestOrigin[r].processId * 10 + requestOrigin[r].resultType
          /\ DecodeProcessId(requestToProcessId[r]) = requestOrigin[r].processId
          /\ DecodeResultType(requestToProcessId[r]) = requestOrigin[r].resultType

C10_Witness ==
    \E r \in RequestIds :
       /\ RegisteredBy(r, "requestResultDecryption")
       /\ requestOrigin[r].processId = 1
       /\ requestOrigin[r].resultType = 1
       /\ requestToProcessId[r] = 11

\* C11: requestProcessDecryption on a revealed process fails with "Already
\* decrypted", writes no table entry, takes no request id from the oracle
\* and emits no event
C11_RevealedRequestRejected ==
    [][\A p \in ProcessIds :
          decryptedProcesses[p].isRevealed
          => \/ /\ lastCall'.result = "Already decrypted"
                /\ UNCHANGED <<stores, events, counterRequest, requestOrigin>>
             \/ ~requestProcessDecryption(p)]_vars

C11_Witness ==
    /\ lastCall.op = "requestProcessDecryption"
    /\ lastCall.result = "Already decrypted"
    /\ \E p \in 1..processCount : decryptedProcesses[p].isRevealed

\* C12: requestProcessExecution(id) succeeds exactly when 1 <= id <=
\* processCount; a success adds one ExecutionRequested(id) event and changes
\* no store, a failure is "Process not found" and changes nothing
C12_ExecutionRequestIffCreated ==
    [][\A p \in ProcessIds :
          \/ IF p \in 1..processCount
             THEN /\ lastCall'.result = "ok"
                  /\ events' = events (+) SetToBag({<<"ExecutionRequested", p>>})
                  /\ UNCHANGED stores
             ELSE /\ lastCall'.result = "Process not found"
                  /\ UNCHANGED <<stores, events>>
          \/ ~requestProcessExecution(p)]_vars

C12_Witness ==
    /\ lastCall.op = "requestProcessExecution"
    /\ lastCall.result = "ok"
    /\ processCount = 1
    /\ CopiesIn(<<"ExecutionRequested", 1>>, events) = 2

\* C13 as stated: requestResultDecryption with a resultType outside {0, 1}
\* fails with "Invalid result type" in every state and registers nothing;
\* every entry it wrote has a resultType in {0, 1}
ResultEntriesTyped ==
    \A r \in RequestIds :
       RegisteredBy(r, "requestResultDecryption")
       => /\ requestOrigin[r].resultType \in {0, 1}
          /\ DecodeResultType(requestToProcessId[r]) \in {0, 1}

C13_InvalidTypeInEveryState ==
    /\ []ResultEntriesTyped
    /\ [][\A p \in ProcessIds, rt \in ResultTypes \ {0, 1} :
             \/ /\ lastCall'.result = "Invalid result type"
                /\ UNCHANGED <<stores, events, counterRequest, requestOrigin>>
             \/ ~requestResultDecryption(p, rt)]_vars

\* C13 amended: with a resultType outside {0, 1} the call always fails and
\* registers nothing: with "Invalid result type" when results are available
\* for the id, with "No results available" when they are not; every entry
\* it wrote has a resultType in {0, 1}
C13_InvalidTypeAfterResultsCheck ==
    /\ []ResultEntriesTyped
    /\ [][\A p \in ProcessIds, rt \in ResultTypes \ {0, 1} :
             \/ /\ lastCall'.result =
                      IF processResults[p].encryptedOutput # 0
                      THEN "Invalid result type"
                      ELSE "No results available"
                /\ UNCHANGED <<stores, events, counterRequest, requestOrigin>>
             \/ ~requestResultDecryption(p, rt)]_vars

C13_Witness ==
    /\ lastCall.op = "requestResultDecryption"
    /\ lastCall.result = "Invalid result type"
    /\ \E r \in RequestIds : RegisteredBy(r, "requestResultDecryption")

\* C14: an unrevealed DecryptedProcess has three empty fields; a revealed
\* one holds the first three strings of one callback payload
C14_FieldsFromOneCallback ==
    \A id \in Uint :
       LET d == decryptedProcesses[id] IN
       IF d.isRevealed
       THEN \E c \in Cleartexts :
               /\ c.kind = "string[]"
               /\ Len(c.items) >= 3
               /\ d.code = c.items[1]
               /\ d.memory = c.items[2]
               /\ d.state = c.items[3]
       ELSE d.code = "" /\ d.memory = "" /\ d.state = ""

C14_Witness ==
    /\ getDecryptedProcess(1) = <<"print(1)", "mem0", "idle", TRUE>>
    /\ getDecryptedProcess(2) = <<"idle", "print(1)", "", TRUE>>

\* C15: createEncryptedProcess never fails: it stores the record with the
\* new id and the three handles, leaves getDecryptedProcess(newId) empty
\* and adds exactly one ProcessCreated(newId, timestamp) event
C15_CreateAlwaysSucceeds ==
    [][\A h \in CreateInputs, t \in Timestamps :
          \/ LET newId == processCount + 1 IN
             /\ lastCall'.result = "ok"
             /\ processCount' = newId
             /\ encryptedProcesses'[newId] =
                   [id |-> newId, encryptedCode |-> h[1], encryptedMemory |-> h[2],
                    encryptedState |-> h[3], timestamp |-> t]
             /\ \A k \in Uint \ {newId} : encryptedProcesses'[k] = encryptedProcesses[k]
             /\ decryptedProcesses'[newId] = ZeroDecrypted
             /\ events' = events (+) SetToBag({<<"ProcessCreated", newId, t>>})
          \/ ~createEncryptedProcess(h[1], h[2], h[3], t)]_vars

C15_Witness ==
    /\ lastCall.op = "createEncryptedProcess"
    /\ lastCall.result = "ok"
    /\ processCount = 2
    /\ encryptedProcesses[2].encryptedCode = 1
    /\ encryptedProcesses[2].encryptedState = 3
    /\ \E r \in consumed : requestToProcessId[r] = 2

\* C16: two requests registered by requestProcessDecryption for the same
\* created process: while the process is unrevealed a signed callback on
\* either with a triple reveals it with that triple; once it is revealed a
\* callback on either fails with "Already decrypted", and no step changes
\* the plaintext of a created, revealed process
C16_FirstCallbackWins ==
    [][/\ \A r1, r2 \in RequestIds :
            ( /\ r1 # r2
              /\ RegisteredBy(r1, "requestProcessDecryption")
              /\ RegisteredBy(r2, "requestProcessDecryption")
              /\ requestOrigin[r1].processId = requestOrigin[r2].processId
              /\ requestOrigin[r1].processId \in 1..processCount )
            => \A c \in Cleartexts :
                  \/ IF decryptedProcesses[requestOrigin[r1].processId].isRevealed
                     THEN /\ lastCall'.result = "Already decrypted"
                          /\ UNCHANGED <<stores, events>>
                     ELSE (c.kind = "string[]" /\ Len(c.items) = 3)
                          => /\ lastCall'.result = "ok"
                             /\ decryptedProcesses'[requestOrigin[r1].processId] =
                                   [code |-> c.items[1], memory |-> c.items[2],
                                    state |-> c.items[3], isRevealed |-> TRUE]
                  \/ ~decryptProcess(r1, c, "signed")
       /\ \A p \in 1..processCount :
            decryptedProcesses[p].isRevealed
            => decryptedProcesses'[p] = decryptedProcesses[p]]_vars

C16_Witness ==
    /\ lastCall.op = "decryptProcess"
    /\ lastCall.result = "Already decrypted"
    /\ \E r1 \in consumed, r2 \in RequestIds \ consumed :
          /\ RegisteredBy(r1, "requestProcessDecryption")
          /\ RegisteredBy(r2, "requestProcessDecryption")
          /\ requestOrigin[r1].processId = requestOrigin[r2].processId
          /\ requestOrigin[r1].processId \in 1..processCount
          /\ getDecryptedProcess(requestOrigin[r1].processId)
                = <<"idle", "print(1)", "", TRUE>>
          /\ CopiesIn(<<"ProcessDecrypted", requestOrigin[r1].processId>>, events) = 1

\* C17: a request id the oracle has issued keeps the table value written
\* for it in every later step
C17_EntriesImmutable ==
    [][\A r \in RequestIds :
          ~RegisteredBy(r, "none")
          => requestToProcessId'[r] = requestToProcessId[r]]_vars

C17_Witness ==
    /\ lastCall.op = "requestResultDecryption"
    /\ lastCall.result = "ok"
    /\ \E r \in consumed :
          /\ RegisteredBy(r, "requestProcessDecryption")
          /\ requestToProcessId[r] = requestOrigin[r].processId
          /\ requestToProcessId[r] # 0

\* C18: decryptExecutionResult with a requestId that requestResultDecryption
\* did not register, or whose table value decodes to process id 0, fails
\* even with a signed proof
C18_UnknownResultRequestRejected ==
    [][\A r \in RequestIds, c \in Cleartexts :
          ( \/ ~RegisteredBy(r, "requestResultDecryption")
            \/ DecodeProcessId(requestToProcessId[r]) = 0 )
          => \/ lastCall'.result # "ok"
             \/ ~decryptExecutionResult(r, c, "signed")]_vars

\* C19: no entry written by requestProcessDecryption holds the same value
\* as an entry written by requestResultDecryption
C19_KindsDistinguishable ==
    \A r1, r2 \in RequestIds :
       ( /\ RegisteredBy(r1, "requestProcessDecryption")
         /\ RegisteredBy(r2, "requestResultDecryption") )
       => requestToProcessId[r1] # requestToProcessId[r2]

\* C20: a step that emits ExecutionCompleted(id) finds ProcessCreated(id, _)
\* and more ExecutionRequested(id) than ExecutionCompleted(id) events in the
\* log; a step that registers a result decryption request for id finds an
\* ExecutionCompleted(id) in the log
C20_LifecycleOrdering ==
    [][\A p \in ProcessIds :
          /\ CopiesIn(<<"ExecutionCompleted", p>>, events')
                > CopiesIn(<<"ExecutionCompleted", p>>, events)
             => /\ \E t \in Timestamps : Emitted(<<"ProcessCreated", p, t>>)
                /\ CopiesIn(<<"ExecutionRequested", p>>, events)
                      > CopiesIn(<<"ExecutionCompleted", p>>, events)
          /\ ( \E r \in RequestIds :
                  /\ RegisteredBy(r, "none")
                  /\ requestOrigin'[r].fn = "requestResultDecryption"
                  /\ requestOrigin'[r].processId = p )
             => Emitted(<<"ExecutionCompleted", p>>)]_vars

\* C21: the log holds one DecryptionRequested event for every correlation
\* entry written, by requestProcessDecryption or by requestResultDecryption
DecryptionRequestedCount ==
    LET requested == {e \in BagToSet(events) : e[1] = "DecryptionRequested"}
        counts == [e \in requested |-> CopiesIn(e, events)]
    IN  BagCardinality(counts)

C21_EveryRequestEmits ==
    DecryptionRequestedCount
       = Cardinality({r \in RequestIds : ~RegisteredBy(r, "none")})

\* C22: a successful decryptExecutionResult for a request registered by
\* requestResultDecryption changes the contract storage
C22_ResultCallbackStores ==
    [][\A r \in RequestIds, c \in Cleartexts :
          RegisteredBy(r, "requestResultDecryption")
          => \/ lastCall'.result = "ok" => stores' # stores
             \/ ~decryptExecutionResult(r, c, "signed")]_vars

\* C23: submitExecutionResult(id, out, time) succeeds for every id in every
\* state, leaves processResults[id] = (out, time), adds exactly one
\* ExecutionCompleted(id) event and changes nothing else in the stores
C23_SubmitOverwritesOnly ==
    [][\A p \in ProcessIds, h \in ResultInputs :
          \/ /\ lastCall'.result = "ok"
             /\ processResults'[p] =
                   [encryptedOutput |-> h[1], encryptedExecutionTime |-> h[2]]
             /\ \A q \in Uint \ {p} : processResults'[q] = processResults[q]
             /\ events' = events (+) SetToBag({<<"ExecutionCompleted", p>>})
             /\ UNCHANGED <<processCount, encryptedProcesses, decryptedProcesses,
                            requestToProcessId>>
          \/ ~submitExecutionResult(p, h[1], h[2])]_vars

C23_Witness ==
    /\ lastCall.op = "submitExecutionResult"
    /\ lastCall.processId = 1
    /\ processCount = 0
    /\ processResults[1] = [encryptedOutput |-> 0, encryptedExecutionTime |-> 1]
    /\ \E r \in RequestIds :
          /\ RegisteredBy(r, "requestResultDecryption")
          /\ requestOrigin[r].processId = 1

\* C24: the EncryptedProcess record of every assigned id stays as created
C24_EncryptedProcessImmutable ==
    [][\A id \in 1..processCount :
          encryptedProcesses'[id] = encryptedProcesses[id]]_vars

C24_Witness ==
    /\ processCount = 2
    /\ encryptedProcesses[1] = NewEncryptedProcess(1, 2, 0, 1, 1700000000)
    /\ encryptedProcesses[2] = NewEncryptedProcess(2, 1, 2, 3, 1700000000)
    /\ lastCall.op = "decryptProcess"
    /\ lastCall.result = "ok"
    /\ decryptedProcesses[1].isRevealed

\* C26: every entry written by requestProcessDecryption targets an id in
\* 1..processCount, and every revealed id is in 1..processCount
C26_DecryptionOnlyForCreated ==
    /\ \A r \in RequestIds :
          RegisteredBy(r, "requestProcessDecryption")
          => requestToProcessId[r] \in 1..processCount
    /\ \A id \in Uint :
          decryptedProcesses[id].isRevealed => id \in 1..processCount

\* C27: a step of an operation whose target is process p leaves the
\* EncryptedProcess, DecryptedProcess and ProcessResult of every other id
\* as they were
OthersUntouched(p) ==
    \A q \in Uint \ {p} :
       /\ encryptedProcesses'[q] = encryptedProcesses[q]
       /\ decryptedProcesses'[q] = decryptedProcesses[q]
       /\ processResults'[q] = processResults[q]

C27_PerEntityIsolation ==
    [][\/ UNCHANGED <<encryptedProcesses, decryptedProcesses, processResults>>
       \/ \A p \in Uint :
          \/ OthersUntouched(p)
          \/ /\ p \in ProcessIds
                => /\ ~requestProcessDecryption(p)
                   /\ ~requestProcessExecution(p)
                   /\ \A h \in ResultInputs : ~submitExecutionResult(p, h[1], h[2])
                   /\ \A rt \in ResultTypes : ~requestResultDecryption(p, rt)
             /\ \A r \in RequestIds, c \in Cleartexts, pr \in Proofs :
                   /\ requestToProcessId[r] = p => ~decryptProcess(r, c, pr)
                   /\ requestToProcessId[r] \div 10 = p
                         => ~decryptExecutionResult(r, c, pr)]_vars

C27_Witness ==
    /\ lastCall.op = "decryptProcess"
    /\ lastCall.result = "ok"
    /\ encryptedProcesses[1].id = 1
    /\ getDecryptedProcess(1) = <<"print(1)", "mem0", "idle", TRUE>>
    /\ ~decryptedProcesses[2].isRevealed
    /\ processResults[2].encryptedOutput # 0

\* C25: under a fair oracle every created process with a request registered
\* by requestProcessDecryption is eventually revealed
C25_EventuallyRevealed ==
    \A p \in 1..MaxProcesses : Pending(p) ~> decryptedProcesses[p].isRevealed

C25_Witness ==
    /\ lastCall.op = "decryptProcess"
    /\ lastCall.result = "ok"
    /\ \E p \in 1..processCount :
          /\ decryptedProcesses[p].isRevealed
          /\ Emitted(<<"ExecutionRequested", p>>)
          /\ \E r \in consumed :
                /\ RegisteredBy(r, "requestProcessDecryption")
                /\ requestOrigin[r].processId = p
====
